---- MODULE Spec2Model ----
(***************************************************************************)
(* Model of bot.py: the Telegram -> Google Drive relay.                    *)
(*                                                                         *)
(* One transfer is one call of handle_file (bot.py:147-230), started by    *)
(* one of the five media handlers (bot.py:232-260).  The coroutine is cut  *)
(* at its await points: each action below is one synchronous stretch of    *)
(* the code up to and including the outcome of the next awaited call.      *)
(* pc values are the source lines of the awaited call.                     *)
(*                                                                         *)
(* Strings are sequences of pieces; every '/', '\' and '.' is a piece of   *)
(* its own, so separators and extensions can be inspected.                 *)
(***************************************************************************)
EXTENDS Integers, Sequences, FiniteSets, TLC

\* ------------------------------------------------------------------ bounds
NumTransfers == 2
MaxTime == 1
MaxFaults == 2

Transfers == 1..NumTransfers

\* ------------------------------------------------------- python values
\* Python's None, kept apart from every str and int.
PyNone == [py |-> "None"]
PyStr(s) == [py |-> "str", v |-> s]
\* A byte count n = mib * 2^20 + rem (2^31 is beyond TLC's integers).
PyInt(m, r) == [py |-> "int", mib |-> m, rem |-> r]

\* str(x) as an f-string renders it (bot.py:174 renders file_name).
Format(x) == IF x = PyNone THEN <<"None">> ELSE x.v

\* bool(x) for an optional str: None and "" are falsy (bot.py:247, 253).
Truthy(x) == x # PyNone /\ x.v # <<>>

\* ------------------------------------------------------------ size check
\* The literal 2147483648 of bot.py:153, in MiB.
MaxSizeMiB == 2048
MaxFileSize == PyInt(MaxSizeMiB, 0)

GreaterThan(a, b) == a.mib > b.mib \/ (a.mib = b.mib /\ a.rem > b.rem)

ExceedsLimit_Mutant(file_size) == ~ GreaterThan(MaxFileSize, file_size)
\* `file_size > 2147483648` (bot.py:153), for an int file_size.
ExceedsLimit(file_size) == GreaterThan(file_size, MaxFileSize)

\* ---------------------------------------------------------------- inputs
TenMiB == PyInt(10, 0)
LimitPlusOne == PyInt(MaxSizeMiB, 1)
\* 3_000_000_000 = 2861 * 2^20 + 24064
ThreeBillion == PyInt(2861, 24064)

APdf == PyStr(<<"a", ".", "pdf">>)
Traversal == PyStr(<<".", ".", "/", ".", ".", "/", "etc", "/", "passwd">>)

\* The updates the transport may deliver: media kind, declared file_name,
\* declared file_size, declared mime_type (a PhotoSize has none),
\* file_unique_id.
Requests ==
    { [kind |-> "document", file_name |-> APdf,      file_size |-> TenMiB,       uid |-> "u1",
       mime_type |-> PyStr("application/pdf")],
      [kind |-> "document", file_name |-> APdf,      file_size |-> LimitPlusOne, uid |-> "u1",
       mime_type |-> PyStr("application/pdf")],
      [kind |-> "document", file_name |-> PyNone,    file_size |-> TenMiB,       uid |-> "u1",
       mime_type |-> PyNone],
      [kind |-> "document", file_name |-> Traversal, file_size |-> MaxFileSize,  uid |-> "u1",
       mime_type |-> PyStr("text/plain")],
      [kind |-> "photo",    file_name |-> PyNone,    file_size |-> ThreeBillion, uid |-> "u1",
       mime_type |-> PyNone],
      [kind |-> "video",    file_name |-> PyNone,    file_size |-> TenMiB,       uid |-> "u1",
       mime_type |-> PyStr("video/mp4")],
      [kind |-> "audio",    file_name |-> APdf,      file_size |-> PyNone,       uid |-> "u1",
       mime_type |-> PyStr("audio/mpeg")],
      [kind |-> "voice",    file_name |-> PyNone,    file_size |-> TenMiB,       uid |-> "u1",
       mime_type |-> PyStr("audio/ogg")] }

NoRequest == [kind |-> "none"]

\* ----------------------------------------------------------------- state
VARIABLES
    now,        \* datetime.now(), in whole seconds
    queue,      \* updates received and not yet handed to a handler
    req,        \* the update of each transfer
    pc,         \* where each handle_file coroutine stands
    file_name,  \* handle_file's file_name argument
    local_path, \* handle_file's local_path (bot.py:174), None until it is set
    fs,         \* files under /tmp: records [path, by]
    status,     \* status messages delivered to the user, in order
    stamps,     \* the second each of them was delivered in
    calls,      \* external calls made by the run
    mime_type,  \* get_mime_type's return value (bot.py:196)
    drive,      \* what the Drive side did with the run's upload ("none": no upload yet)
    result,     \* upload_to_drive's return value
    success_text, \* what the success message shows (bot.py:204-212), None until it is shown
    exit,       \* how the run left handle_file
    faulted,    \* awaited/OS calls of the run that raised
    blocked,    \* the transfer whose synchronous call holds the event loop, or 0
    nfaults,    \* faults injected so far
    stopping    \* the host is shutting down

vars == <<now, queue, req, pc, file_name, local_path, fs, status, stamps, calls, mime_type, drive, result, success_text, exit,
          faulted, blocked, nfaults, stopping>>

NoCalls == [get_file |-> 0, download |-> 0, upload |-> 0, create |-> 0, remove |-> 0]

Init ==
    /\ now = 0
    /\ queue = <<>>
    /\ req = [t \in Transfers |-> NoRequest]
    /\ pc = [t \in Transfers |-> "idle"]
    /\ file_name = [t \in Transfers |-> PyNone]
    /\ local_path = [t \in Transfers |-> PyNone]
    /\ fs = {}
    /\ status = [t \in Transfers |-> <<>>]
    /\ stamps = [t \in Transfers |-> <<>>]
    /\ calls = [t \in Transfers |-> NoCalls]
    /\ mime_type = [t \in Transfers |-> PyNone]
    /\ drive = [t \in Transfers |-> "none"]
    /\ result = [t \in Transfers |-> PyNone]
    /\ success_text = [t \in Transfers |-> PyNone]
    /\ exit = [t \in Transfers |-> "none"]
    /\ faulted = [t \in Transfers |-> {}]
    /\ blocked = 0
    /\ nfaults = 0
    /\ stopping = FALSE

\* ------------------------------------------------------------ file names
\* datetime.now().strftime("%Y%m%d_%H%M%S"): one piece per second of the clock.
TimeStamp == ToString(now)

DocumentName(document) == document.file_name

PhotoName(photo) == PyStr(<<"photo_", TimeStamp, "_", photo.uid, ".", "jpg">>)

VideoName(video) ==
    IF Truthy(video.file_name) THEN video.file_name
    ELSE PyStr(<<"video_", TimeStamp, ".", "mp4">>)

AudioName(audio) ==
    IF Truthy(audio.file_name) THEN audio.file_name
    ELSE PyStr(<<"audio_", TimeStamp, ".", "mp3">>)

VoiceName(voice) == PyStr(<<"voice_", TimeStamp, ".", "ogg">>)

\* local_path = f"/tmp/{file_name}" (bot.py:174)
StagingRoot == <<"/", "tmp", "/">>
LocalPath(name) == PyStr(StagingRoot \o Format(name))

\* ------------------------------------------------------------- MIME type
Lower(piece) ==
    CASE piece = "PDF" -> "pdf"
      [] piece = "JPG" -> "jpg"
      [] OTHER -> piece

\* filename.split('.')[-1]: the pieces after the last '.', all of them when
\* there is none.
RECURSIVE LastPart(_)
LastPart(s) ==
    IF s = <<>> THEN <<>>
    ELSE IF s[Len(s)] = "." THEN <<>>
    ELSE Append(LastPart(SubSeq(s, 1, Len(s) - 1)), s[Len(s)])

MimeTable ==
    [ext \in {<<"jpg">>, <<"jpeg">>, <<"png">>, <<"gif">>, <<"webp">>, <<"mp4">>,
              <<"avi">>, <<"mkv">>, <<"mov">>, <<"webm">>, <<"mp3">>, <<"wav">>,
              <<"ogg">>, <<"pdf">>, <<"doc">>, <<"docx">>, <<"xls">>, <<"xlsx">>,
              <<"zip">>, <<"rar">>, <<"7z">>, <<"txt">>, <<"csv">>} |->
        CASE ext = <<"jpg">> -> "image/jpeg"
          [] ext = <<"jpeg">> -> "image/jpeg"
          [] ext = <<"png">> -> "image/png"
          [] ext = <<"gif">> -> "image/gif"
          [] ext = <<"webp">> -> "image/webp"
          [] ext = <<"mp4">> -> "video/mp4"
          [] ext = <<"avi">> -> "video/x-msvideo"
          [] ext = <<"mkv">> -> "video/x-matroska"
          [] ext = <<"mov">> -> "video/quicktime"
          [] ext = <<"webm">> -> "video/webm"
          [] ext = <<"mp3">> -> "audio/mpeg"
          [] ext = <<"wav">> -> "audio/wav"
          [] ext = <<"ogg">> -> "audio/ogg"
          [] ext = <<"pdf">> -> "application/pdf"
          [] ext = <<"doc">> -> "application/msword"
          [] ext = <<"docx">> -> "application/vnd.openxmlformats-officedocument.wordprocessingml.document"
          [] ext = <<"xls">> -> "application/vnd.ms-excel"
          [] ext = <<"xlsx">> -> "application/vnd.openxmlformats-officedocument.spreadsheetml.sheet"
          [] ext = <<"zip">> -> "application/zip"
          [] ext = <<"rar">> -> "application/x-rar-compressed"
          [] ext = <<"7z">> -> "application/x-7z-compressed"
          [] ext = <<"txt">> -> "text/plain"
          [] OTHER -> "text/csv"]

\* get_mime_type on a str; on None, filename.lower() raises (MimeRaises).
GetMimeType(filename) ==
    LET ext == [i \in DOMAIN LastPart(filename.v) |-> Lower(LastPart(filename.v)[i])]
    IN  IF ext \in DOMAIN MimeTable THEN MimeTable[ext] ELSE "application/octet-stream"

MimeRaises(filename) == filename = PyNone

\* ------------------------------------------------------------ filesystem
Exists(path) == \E f \in fs : f.path = path
Written(files, path, t) == {f \in files : f.path # path} \cup {[path |-> path, by |-> t]}
Removed_Mutant(files, path) == files
Removed(files, path) == {f \in files : f.path # path}

\* --------------------------------------------------------- Google Drive
\* What the Drive side does with one upload.
DriveOutcomes == {"ok", "no_service", "auth", "quota", "network"}

RemoteFile(name) == [py |-> "dict", id |-> "id", name |-> name, webViewLink |-> "link"]

UploadToDrive_Mutant(file_exists, name, d) ==
    IF d = "no_service" THEN PyNone ELSE RemoteFile(name)
\* upload_to_drive: None when the service cannot be created, and None for
\* every exception of MediaFileUpload (no such file) or of create().execute().
UploadToDrive(file_exists, name, d) ==
    IF d = "no_service" THEN PyNone
    ELSE IF ~ file_exists THEN PyNone
    ELSE IF d = "ok" THEN RemoteFile(name)
    ELSE PyNone

\* whether service.files().create(...).execute() is reached
CreateCalled(file_exists, d) == d # "no_service" /\ file_exists

\* ------------------------------------------------------------- scheduling
\* "done": handle_file has returned (or raised); "past": and a later run has
\* started since.
\* ---------------------------------------------------------- message texts
\* size_mb = file_size / (1024 * 1024) (bot.py:162), in hundredths of a MB as
\* f"{size_mb:.2f}" rounds it: to the nearest hundredth, a tie to the even one
\* (the quotient is exact in a float).
MiB == 1024 * 1024
Hundredths(file_size) ==
    LET n == file_size.rem * 100
        q == n \div MiB
        r == n % MiB
    IN  file_size.mib * 100
        + (IF 2 * r > MiB THEN q + 1 ELSE IF 2 * r = MiB THEN q + (q % 2) ELSE q)

SizeText_Mutant(file_size) == <<ToString(file_size.mib), " MB">>
\* f"{size_mb:.2f} MB" (bot.py:168, 208): whole part, point, two digits, unit.
SizeText(file_size) ==
    LET h == Hundredths(file_size)
    IN  <<ToString(h \div 100), ".", ToString((h \div 10) % 10), ToString(h % 10), " MB">>

\* What the success message shows (bot.py:204-212): the name, the size and
\* result.get('webViewLink').
SuccessText(name, file_size, res) ==
    [name |-> Format(name), size |-> SizeText(file_size), link |-> res.webViewLink]

Terminal == {"done", "past"}
AwaitPcs == {"L154", "L165", "L173", "L177", "L179", "L187", "L204", "L215", "L224"}

\* Application.builder().token(...).build() leaves concurrent_updates off and
\* the handlers are registered blocking: the next update is handed to its
\* handler only when the previous handler has returned.
CanDispatch(t) ==
    /\ queue # <<>>
    /\ Head(queue) = t
    /\ blocked = 0
    /\ ~ stopping
    /\ \A u \in Transfers : pc[u] \in {"idle", "queued"} \cup Terminal

\* A coroutine resumes only while no synchronous call holds the event loop.
CanResume(t, label) == pc[t] = label /\ blocked = 0

\* How an awaited transport call ends: it returns, it raises without effect,
\* or it raises although the transport applied it (a reply lost in transit).
SendOutcomes == {"ok", "raise", "late"}
CallOutcomes == {"ok", "raise"}

Goto(t, label) == pc' = [pc EXCEPT ![t] = label]
Leave(t, how) == pc' = [pc EXCEPT ![t] = "done"] /\ exit' = [exit EXCEPT ![t] = how]

Await(t, site, o) ==
    /\ o # "ok" => nfaults < MaxFaults
    /\ nfaults' = IF o = "ok" THEN nfaults ELSE nfaults + 1
    /\ faulted' = [faulted EXCEPT ![t] = IF o = "ok" THEN @ ELSE @ \cup {site}]

Delivered(t, text, o) ==
    /\ status' = [status EXCEPT ![t] = IF o \in {"ok", "late"} THEN Append(@, text) ELSE @]
    /\ stamps' = [stamps EXCEPT ![t] = IF o \in {"ok", "late"} THEN Append(@, now) ELSE @]

\* ------------------------------------------------------------- handlers
\* The label handle_file reaches when it is entered, lines 149-163 run
\* without suspension: `None > 2147483648` raises TypeError into the except
\* clause (file_size of a Telegram media object is optional), a file over
\* the limit goes to the rejection reply, any other to the first status.
SizeCheck(file_size) ==
    IF file_size = PyNone THEN "L224"
    ELSE IF ExceedsLimit(file_size) THEN "L154"
    ELSE "L165"

\* The handler of update r starts handle_file(update, context, r, name, ...).
\* The records of the runs that ended before (status, calls, result, exit,
\* file_name, faulted) are dropped here: a finished run is observed from its
\* return until the next run starts; its local_path and the files it left
\* are kept.
Enter(t, r, name) ==
    /\ CanDispatch(t)
    /\ queue' = Tail(queue)
    /\ req' = [u \in Transfers |-> IF u = t THEN r ELSE IF pc[u] = "done" THEN NoRequest ELSE req[u]]
    /\ file_name' = [u \in Transfers |-> IF u = t THEN name ELSE PyNone]
    /\ pc' = [u \in Transfers |->
                IF u = t THEN SizeCheck(r.file_size)
                ELSE IF pc[u] = "done" THEN "past" ELSE pc[u]]
    /\ status' = [u \in Transfers |-> <<>>]
    /\ stamps' = [u \in Transfers |-> <<>>]
    /\ calls' = [u \in Transfers |-> NoCalls]
    /\ mime_type' = [u \in Transfers |-> PyNone]
    /\ drive' = [u \in Transfers |-> "none"]
    /\ result' = [u \in Transfers |-> PyNone]
    /\ success_text' = [u \in Transfers |-> PyNone]
    /\ exit' = [u \in Transfers |-> "none"]
    /\ faulted' = [u \in Transfers |-> {}]
    /\ UNCHANGED <<now, local_path, fs, blocked, nfaults, stopping>>

\* The filters of main() (bot.py:285-289) choose the handler by media kind.
handle_document(t) ==
    \E r \in Requests : r.kind = "document" /\ Enter(t, r, DocumentName(r))
handle_photo(t) ==
    \E r \in Requests : r.kind = "photo" /\ Enter(t, r, PhotoName(r))
handle_video(t) ==
    \E r \in Requests : r.kind = "video" /\ Enter(t, r, VideoName(r))
handle_audio(t) ==
    \E r \in Requests : r.kind = "audio" /\ Enter(t, r, AudioName(r))
handle_voice(t) ==
    \E r \in Requests : r.kind = "voice" /\ Enter(t, r, VoiceName(r))

\* The polling task, a task of the same event loop, puts the next update on
\* the queue.  Transfers are numbered in order of arrival; what the update
\* holds is read when its handler starts.
Receive(t) ==
    /\ pc[t] = "idle"
    /\ \A u \in Transfers : u < t => pc[u] # "idle"
    /\ blocked = 0
    /\ ~ stopping
    /\ queue' = Append(queue, t)
    /\ Goto(t, "queued")
    /\ UNCHANGED <<now, req, file_name, local_path, fs, status, stamps, calls, mime_type, drive, result, success_text, exit,
                   faulted, nfaults, blocked, stopping>>

\* The program reads the clock in the handlers only (bot.py:240-259), so
\* under Spec the seconds that pass during a run are taken after it; Elapse
\* (SpecClock) lets them pass during the run, for the delivery times.
Tick ==
    /\ now < MaxTime
    /\ \A u \in Transfers : pc[u] \in {"idle", "queued"} \cup Terminal
    /\ now' = now + 1
    /\ UNCHANGED <<queue, req, pc, file_name, local_path, fs, status, stamps, calls, mime_type, drive, result, success_text,
                   exit, faulted, blocked, nfaults, stopping>>

\* --------------------------------------------------- handle_file's awaits
\* bot.py:154-160: the rejection reply, then return.
RejectReply(t) ==
    /\ CanResume(t, "L154")
    /\ \E o \in SendOutcomes :
        /\ Await(t, "L154", o)
        /\ Delivered(t, "TooLarge", o)
        /\ IF o = "ok" THEN Leave(t, "return_160")
           ELSE Goto(t, "L224") /\ UNCHANGED exit
    /\ UNCHANGED <<now, queue, req, file_name, local_path, fs, calls, mime_type, drive, result, success_text, blocked, stopping>>

\* bot.py:165-170: progress_msg = await update.message.reply_text(...)
NotifyDownloading(t) ==
    /\ CanResume(t, "L165")
    /\ \E o \in SendOutcomes :
        /\ Await(t, "L165", o)
        /\ Delivered(t, "Downloading", o)
        /\ Goto(t, IF o = "ok" THEN "L173" ELSE "L224")
    /\ UNCHANGED <<now, queue, req, file_name, local_path, fs, calls, mime_type, drive, result, success_text, exit, blocked, stopping>>

\* bot.py:173-174: file = await context.bot.get_file(file_obj.file_id), then
\* local_path is set.
GetFile(t) ==
    /\ CanResume(t, "L173")
    /\ calls' = [calls EXCEPT ![t].get_file = @ + 1]
    /\ \E o \in CallOutcomes :
        /\ Await(t, "L173", o)
        /\ Goto(t, IF o = "ok" THEN "L177" ELSE "L224")
        /\ local_path' = [local_path EXCEPT ![t] = IF o = "ok" THEN LocalPath(file_name[t]) ELSE @]
    /\ UNCHANGED <<now, queue, req, file_name, fs, status, stamps, mime_type, drive, result, success_text, exit, blocked, stopping>>

AfterDownload_Mutant(o) == IF o = "ok" THEN "L187" ELSE "L177"
\* Where handle_file goes on after the download: to the uploading edit
\* (bot.py:187), or into the except clause of bot.py:178-184.
AfterDownload(o) == IF o = "ok" THEN "L187" ELSE "L179"

\* bot.py:176-178: await file.download_to_drive(local_path).  A failed
\* download may have written part of the file before it raised.
Download(t) ==
    /\ CanResume(t, "L177")
    /\ calls' = [calls EXCEPT ![t].download = @ + 1]
    /\ \E o \in CallOutcomes, wrote \in BOOLEAN :
        /\ Await(t, "L177", o)
        /\ o = "ok" => wrote
        /\ fs' = IF wrote THEN Written(fs, local_path[t], t) ELSE fs
        /\ Goto(t, AfterDownload(o))
    /\ UNCHANGED <<now, queue, req, file_name, local_path, status, stamps, mime_type, drive, result, success_text, exit, blocked, stopping>>

\* bot.py:179-184: the download-failed edit, then return.
DownloadFailedEdit(t) ==
    /\ CanResume(t, "L179")
    /\ \E o \in SendOutcomes :
        /\ Await(t, "L179", o)
        /\ Delivered(t, "DownloadFailed", o)
        /\ IF o = "ok" THEN Leave(t, "return_184")
           ELSE Goto(t, "L224") /\ UNCHANGED exit
    /\ UNCHANGED <<now, queue, req, file_name, local_path, fs, calls, mime_type, drive, result, success_text, blocked, stopping>>

\* bot.py:187-197: the uploading edit; when it returns the coroutine goes on,
\* without suspension, to get_mime_type and into upload_to_drive, a
\* synchronous call made on the event loop's own thread.
UploadingEdit(t) ==
    /\ CanResume(t, "L187")
    /\ \E o \in SendOutcomes :
        /\ Await(t, "L187", o)
        /\ Delivered(t, "Uploading", o)
        /\ IF o # "ok" THEN
                /\ Goto(t, "L224")
                /\ UNCHANGED <<mime_type, calls, blocked>>
           ELSE IF MimeRaises(file_name[t]) THEN
                /\ Goto(t, "L224")
                /\ UNCHANGED <<mime_type, calls, blocked>>
           ELSE /\ mime_type' = [mime_type EXCEPT ![t] = GetMimeType(file_name[t])]
                /\ calls' = [calls EXCEPT ![t].upload = @ + 1]
                /\ blocked' = t
                /\ Goto(t, "L197")
    /\ UNCHANGED <<now, queue, req, file_name, local_path, fs, drive, result, success_text, exit, stopping>>

\* bot.py:197-203: upload_to_drive returns, then the clean-up
\* (os.path.exists, os.remove) and the branch on result, all without suspension.
\* os.remove may raise with the file still there, or because something
\* outside the coroutine took the file away after os.path.exists saw it.
Publish(t) ==
    /\ pc[t] = "L197"
    /\ blocked = t
    /\ blocked' = 0
    /\ \E d \in DriveOutcomes, rm \in CallOutcomes, gone \in BOOLEAN :
        LET path == local_path[t]
            res == UploadToDrive(Exists(path), file_name[t], d)
        IN  /\ drive' = [drive EXCEPT ![t] = d]
            /\ result' = [result EXCEPT ![t] = res]
            /\ rm # "ok" => Exists(path)
            /\ gone => rm # "ok"
            /\ Await(t, "L201", rm)
            /\ calls' = [calls EXCEPT
                           ![t].create = @ + (IF CreateCalled(Exists(path), d) THEN 1 ELSE 0),
                           ![t].remove = @ + (IF Exists(path) THEN 1 ELSE 0)]
            /\ fs' = IF rm = "ok" \/ gone THEN Removed(fs, path) ELSE fs
            /\ Goto(t, IF rm # "ok" THEN "L224"
                       ELSE IF res # PyNone THEN "L204" ELSE "L215")
    /\ UNCHANGED <<now, queue, req, file_name, local_path, status, stamps, mime_type, success_text, exit, stopping>>

\* bot.py:204-213: the success edit.
SuccessEdit(t) ==
    /\ CanResume(t, "L204")
    /\ \E o \in SendOutcomes :
        /\ Await(t, "L204", o)
        /\ Delivered(t, "Success", o)
        /\ success_text' = [success_text EXCEPT ![t] =
                IF o \in {"ok", "late"}
                THEN SuccessText(file_name[t], req[t].file_size, result[t]) ELSE @]
        /\ IF o = "ok" THEN Leave(t, "end_213")
           ELSE Goto(t, "L224") /\ UNCHANGED exit
    /\ UNCHANGED <<now, queue, req, file_name, local_path, fs, calls, mime_type, drive, result, blocked, stopping>>

\* bot.py:215-220: the upload-failed edit.
UploadFailedEdit(t) ==
    /\ CanResume(t, "L215")
    /\ \E o \in SendOutcomes :
        /\ Await(t, "L215", o)
        /\ Delivered(t, "UploadFailed", o)
        /\ IF o = "ok" THEN Leave(t, "end_220")
           ELSE Goto(t, "L224") /\ UNCHANGED exit
    /\ UNCHANGED <<now, queue, req, file_name, local_path, fs, calls, mime_type, drive, result, success_text, blocked, stopping>>

\* bot.py:222-230: the except clause's reply; when it raises, the exception
\* leaves handle_file.
ErrorReply(t) ==
    /\ CanResume(t, "L224")
    /\ \E o \in SendOutcomes :
        /\ Await(t, "L224", o)
        /\ Delivered(t, "Error", o)
        /\ Leave(t, IF o = "ok" THEN "end_230" ELSE "raised_230")
    /\ UNCHANGED <<now, queue, req, file_name, local_path, fs, calls, mime_type, drive, result, success_text, blocked, stopping>>

\* Shutdown cancels the running coroutine at the await it is suspended in.
\* CancelledError is a BaseException: neither `except Exception` (bot.py:178,
\* 222) catches it, and handle_file has no finally clause.  A cancelled
\* download may have written part of the file.
Cancel(t) ==
    /\ pc[t] \in AwaitPcs
    /\ blocked = 0
    /\ nfaults < MaxFaults
    /\ nfaults' = nfaults + 1
    /\ faulted' = [faulted EXCEPT ![t] = @ \cup {"cancel"}]
    /\ stopping' = TRUE
    /\ Leave(t, "cancelled")
    /\ calls' = [calls EXCEPT
                   ![t].get_file = @ + (IF pc[t] = "L173" THEN 1 ELSE 0),
                   ![t].download = @ + (IF pc[t] = "L177" THEN 1 ELSE 0)]
    /\ \E wrote \in BOOLEAN :
        /\ wrote => pc[t] = "L177"
        /\ fs' = IF wrote THEN Written(fs, local_path[t], t) ELSE fs
    /\ UNCHANGED <<now, queue, req, file_name, local_path, status, stamps, mime_type, drive, result, success_text, blocked>>

\* ------------------------------------------------------------------ spec
Next ==
    \/ Tick
    \/ \E t \in Transfers :
        \/ Receive(t)
        \/ handle_document(t)
        \/ handle_photo(t)
        \/ handle_video(t)
        \/ handle_audio(t)
        \/ handle_voice(t)
        \/ RejectReply(t)
        \/ NotifyDownloading(t)
        \/ GetFile(t)
        \/ Download(t)
        \/ DownloadFailedEdit(t)
        \/ UploadingEdit(t)
        \/ Publish(t)
        \/ SuccessEdit(t)
        \/ UploadFailedEdit(t)
        \/ ErrorReply(t)
        \/ Cancel(t)

Spec == Init /\ [][Next]_vars

\* A second of the clock that passes while a run is under way (a call of the
\* run is awaited, or upload_to_drive holds the thread).
Elapse ==
    /\ now < MaxTime
    /\ \E u \in Transfers : pc[u] \notin {"idle", "queued"} \cup Terminal
    /\ now' = now + 1
    /\ UNCHANGED <<queue, req, pc, file_name, local_path, fs, status, stamps, calls, mime_type, drive,
                   result, success_text, exit, faulted, blocked, nfaults, stopping>>

NextClock == Next \/ Elapse

\* The program with the clock running during the runs as well.
SpecClock == Init /\ [][NextClock]_vars

\* ------------------------------------------------- reading a run's state
\* The run of t is under observation: started, and no later run has begun.
Observed(t) == pc[t] \notin {"idle", "queued", "past"}

\* The terminal state a run ends in, by the place it leaves handle_file:
\* return at 160, return at 184, the end of the success branch (213), of the
\* failure branch (220), of the except clause (230).  A run whose exception
\* leaves handle_file, or that was cancelled, settled nothing.
Settled(t) ==
    CASE exit[t] = "return_160" -> "SizeExceeded"
      [] exit[t] = "return_184" -> "DownloadError"
      [] exit[t] = "end_213" -> "Success"
      [] exit[t] = "end_220" -> "PublishError"
      [] exit[t] = "end_230" -> "UnexpectedFault"
      [] OTHER -> "Unsettled"

FailedKinds == {"SizeExceeded", "DownloadError", "PublishError", "UnexpectedFault"}

\* A file staged by t's download lies at t's staging path.
StagedFile(t) ==
    \E f \in fs : f.path = local_path[t] /\ f.by = t

FailureTexts == {"TooLarge", "DownloadFailed", "UploadFailed", "Error"}
FailureCount(t) == Cardinality({i \in DOMAIN status[t] : status[t][i] \in FailureTexts})
Emitted(t, text) == \E i \in DOMAIN status[t] : status[t][i] = text

HasSeparator(s) == \E i \in DOMAIN s : s[i] \in {"/", "\\"}

\* ===================================================================== C1
\* C1: on every exit path of handle_file (cancellation aside) the staged file of the transfer is
\* released exactly once and no staged file of the transfer exists when the
\* run returns (a file that was staged and is gone was removed; it is removed
\* at most once).
C1_ReleasedOnEveryExit ==
    \A t \in Transfers :
        exit[t] \notin {"none", "cancelled"} =>
            (calls[t].remove <= 1 /\ ~ StagedFile(t))

\* ===================================================================== C2
\* C2: when the download fails (and nothing else does), the transfer settles
\* as Failed with a download error, no staged file is left behind, and
\* upload_to_drive is never invoked.
C2_DownloadFailureReleases ==
    \A t \in Transfers :
        (faulted[t] = {"L177"} /\ exit[t] # "none") =>
            /\ Settled(t) = "DownloadError"
            /\ ~ StagedFile(t)
            /\ calls[t].upload = 0

\* ===================================================================== C3
\* The Drive side failed the upload of t, and upload_to_drive has returned.
PublishFailed(t) == drive[t] \notin {"none", "ok"}

\* C3: when the publish fails for any cause, a Success status is never
\* emitted and the staged file is absent once the clean-up has run; the run,
\* its other calls not failing, ends in Settled(Failed, PublishError) with
\* exactly one failure status emitted.
C3_PublishFailureSettles ==
    \A t \in Transfers :
        PublishFailed(t) =>
            /\ result[t] = PyNone
            /\ ~ Emitted(t, "Success")
            /\ "L201" \notin faulted[t] => ~ StagedFile(t)
            /\ (exit[t] # "none" /\ faulted[t] = {}) =>
                  /\ Settled(t) = "PublishError"
                  /\ FailureCount(t) = 1
                  /\ status[t] = <<"Downloading", "Uploading", "UploadFailed">>

\* An auth fault failed the publish and the run has returned.
C3_Witness ==
    \E t \in Transfers :
        /\ drive[t] = "auth"
        /\ exit[t] = "end_220"
        /\ faulted[t] = {}
        /\ calls[t].remove = 1

\* ===================================================================== C4
\* C4: a transfer cancelled at any phase leaves no staged file behind.
C4_CancelledLeavesNoFile ==
    \A t \in Transfers : exit[t] = "cancelled" => ~ StagedFile(t)

\* ===================================================================== C5
\* C5: a request whose declared size exceeds 2147483648 bytes never reaches
\* get_file, the download or the upload, stages nothing, shows no Downloading
\* status, and is settled as Failed(SizeExceeded) once the rejection reply is
\* sent; a request of at most 2147483648 bytes is never rejected by the
\* precheck.
C5_SizePrecheck ==
    \A t \in Transfers :
        (Observed(t) /\ req[t].file_size # PyNone) =>
            IF GreaterThan(req[t].file_size, MaxFileSize)
            THEN /\ calls[t] = NoCalls
                 /\ ~ StagedFile(t)
                 /\ ~ Emitted(t, "Downloading")
                 /\ pc[t] \in {"L154", "L224", "done"}
                 /\ (exit[t] # "none" /\ faulted[t] = {}) => Settled(t) = "SizeExceeded"
            ELSE /\ pc[t] # "L154"
                 /\ Settled(t) # "SizeExceeded"
                 /\ ~ Emitted(t, "TooLarge")

\* A file of 2147483649 bytes was rejected without any transfer I/O.
C5_Witness ==
    \E t \in Transfers :
        /\ req[t].kind # "none"
        /\ req[t].file_size = LimitPlusOne
        /\ exit[t] = "return_160"
        /\ calls[t] = NoCalls
        /\ status[t] = <<"TooLarge">>

\* ===================================================================== C6
\* C6: no exception leaves handle_file: whatever external call fails, the
\* run returns normally in a terminal Settled(Failed) state.
C6_NoFaultEscapes ==
    \A t \in Transfers :
        (exit[t] # "none" /\ faulted[t] # {} /\ "cancel" \notin faulted[t]) =>
            Settled(t) \in FailedKinds

\* ===================================================================== C7
\* The download of t returned without raising.
FetchCompleted(t) ==
    calls[t].download = 1 /\ "L177" \notin faulted[t] /\ pc[t] # "L177"

\* C7: a transfer whose fetch completed ends in Settled(Success) or
\* Settled(Failed, PublishError) when the run returns (here: in runs in which
\* no external call fails and nothing is cancelled).
C7_FetchedEndsPublished ==
    \A t \in Transfers :
        (FetchCompleted(t) /\ exit[t] # "none" /\ faulted[t] = {}) =>
            Settled(t) \in {"Success", "PublishError"}

\* ===================================================================== C8
\* C8: the name the staging path is built from is non-empty and contains no
\* '/' or '\' piece.
C8_NameHasNoSeparator ==
    \A t \in Transfers :
        Observed(t) =>
            /\ Format(file_name[t]) # <<>>
            /\ ~ HasSeparator(Format(file_name[t]))

\* ===================================================================== C9
\* C9: any two distinct transfers that reached their staging path have
\* different staging paths.
C9_StagePathsDiffer ==
    \A t, u \in Transfers :
        (t # u /\ local_path[t] # PyNone /\ local_path[u] # PyNone) =>
            local_path[t] # local_path[u]

\* ==================================================================== C10
\* The next update to arrive, if any is left.
NextArrival(u) == pc[u] = "idle" /\ \A v \in Transfers : v < u => pc[v] # "idle"

\* C10: while a transfer is inside upload_to_drive the scheduler can still
\* take a step for another transfer (here: the polling task can take in the
\* next update).
C10_SchedulerFreeDuringPublish ==
    \A t, u \in Transfers :
        (pc[t] = "L197" /\ NextArrival(u)) => ENABLED Receive(u)

\* ==================================================================== C11
\* A run that ended without settling as Success.
FailedRun(t) == exit[t] \notin {"none", "cancelled", "end_213"}

\* C11: every failed run has emitted exactly one failure status, whatever
\* the failure path, also when a status edit or reply itself failed.
C11_OneFailureStatus ==
    \A t \in Transfers : FailedRun(t) => FailureCount(t) = 1

\* ==================================================================== C12
\* C12: a run that settles as Success ends with the success status as its
\* last status; that message shows the name of the transfer, the size in MB
\* with two decimals ("10.00 MB" for 10_485_760 bytes, "2048.00 MB" for
\* 2 GiB) and a non-empty link, the one the publish returned; and no staged
\* file of the transfer is left.
C12_SuccessStatus ==
    \A t \in Transfers :
        Settled(t) = "Success" =>
            /\ status[t] # <<>> /\ status[t][Len(status[t])] = "Success"
            /\ success_text[t] # PyNone
            /\ success_text[t].name = Format(file_name[t])
            /\ success_text[t].size = SizeText(req[t].file_size)
            /\ req[t].file_size = TenMiB =>
                  success_text[t].size = <<"10", ".", "0", "0", " MB">>
            /\ req[t].file_size = MaxFileSize =>
                  success_text[t].size = <<"2048", ".", "0", "0", " MB">>
            /\ success_text[t].link # "" /\ success_text[t].link = result[t].webViewLink
            /\ ~ StagedFile(t)

C12_Witness ==
    \E t \in Transfers :
        /\ exit[t] = "end_213"
        /\ req[t].file_size = TenMiB
        /\ success_text[t].size = <<"10", ".", "0", "0", " MB">>
        /\ calls[t].remove = 1
        /\ status[t] = <<"Downloading", "Uploading", "Success">>

\* ==================================================================== C13
\* The statuses that are not terminal.
NonFinalTexts == {"Downloading", "Uploading"}

\* C13: a non-final status that follows an earlier status of the same
\* transfer is delivered at least 5 seconds after that earlier one.
C13_NonFinalRateLimited ==
    \A t \in Transfers :
        \A i \in 2..Len(status[t]) :
            status[t][i] \in NonFinalTexts => stamps[t][i] - stamps[t][i - 1] >= 5

\* ==================================================================== C14
\* C14: a run makes at most one attempt at each step: get_file, the
\* download, upload_to_drive and Drive's files().create are each called at
\* most once, and a failed download or a failed publish is not tried again
\* (after a failed download the run is past the download and never uploads;
\* after a failed publish it is past the upload).
C14_AtMostOneAttempt ==
    \A t \in Transfers :
        /\ calls[t].get_file <= 1
        /\ calls[t].download <= 1
        /\ calls[t].upload <= 1
        /\ calls[t].create <= 1
        /\ "L177" \in faulted[t] =>
              /\ pc[t] \in {"L179", "L224", "done"}
              /\ calls[t].upload = 0
        /\ PublishFailed(t) => pc[t] \in {"L215", "L224", "done"}

C14_Witness ==
    \E t \in Transfers :
        /\ "L177" \in faulted[t]
        /\ exit[t] = "return_184"
        /\ calls[t].download = 1
        /\ calls[t].get_file = 1

\* ==================================================================== C15
\* C15: the release of the staged file (os.path.exists, os.remove) never
\* raises, whether the file is there or has been taken away.
C15_ReleaseNeverRaises ==
    \A t \in Transfers : "L201" \notin faulted[t]

\* ==================================================================== C16
\* C16: the MIME type handed to upload_to_drive is the one the update
\* declares when it declares one, and otherwise the one the table gives for
\* the name's extension (application/octet-stream for an unknown one).
C16_DeclaredMimeWins ==
    \A t \in Transfers :
        calls[t].upload = 1 =>
            mime_type[t] = IF req[t].mime_type # PyNone THEN req[t].mime_type.v
                           ELSE GetMimeType(file_name[t])

\* ==================================================================== C17
\* The phase a status belongs to: Downloading, Uploading, then the terminal
\* statuses (success and the failure texts).
Rank(text) ==
    CASE text = "Downloading" -> 1
      [] text = "Uploading" -> 2
      [] OTHER -> 3

TerminalEmitted(t) == \E i \in DOMAIN status[t] : Rank(status[t][i]) = 3

\* C17: the statuses of a run appear strictly in the order Downloading,
\* Uploading, terminal, so a terminal status is the last status of the run;
\* and once a terminal status is out the run is at no download or upload
\* step any more.
C17_StrictlyForward ==
    \A t \in Transfers :
        /\ \A i \in 2..Len(status[t]) : Rank(status[t][i]) > Rank(status[t][i - 1])
        /\ TerminalEmitted(t) => pc[t] \notin {"L165", "L173", "L177", "L187", "L197"}

\* ==================================================================== C18
\* The run stands at, or has failed in, the success or the upload-failed edit.
AtTerminalEdit(t) ==
    pc[t] \in {"L204", "L215"} \/ faulted[t] \cap {"L204", "L215"} # {}

\* C18: a success status is out only if upload_to_drive returned a remote
\* object; and when the success or upload-failed edit is attempted the
\* staged file has already been removed, so that no staged file is left
\* when that edit fails.
C18_RemovalBeforeTerminalEdit ==
    \A t \in Transfers :
        /\ Emitted(t, "Success") => (result[t] # PyNone /\ drive[t] = "ok")
        /\ (AtTerminalEdit(t) \/ Emitted(t, "Success") \/ Emitted(t, "UploadFailed")) =>
              /\ calls[t].remove = 1
              /\ ~ Exists(local_path[t])
              /\ ~ StagedFile(t)

C18_Witness ==
    \E t \in Transfers :
        /\ "L204" \in faulted[t]
        /\ ~ Emitted(t, "Success")
        /\ exit[t] = "end_230"
        /\ calls[t].remove = 1
        /\ ~ StagedFile(t)

\* ==================================================================== C19
\* C19: no run has both a success status and a failure status delivered,
\* also when a status edit was applied by Telegram and raised all the same.
C19_SuccessExcludesFailure ==
    \A t \in Transfers : ~ (Emitted(t, "Success") /\ FailureCount(t) > 0)

====
